---- MODULE Spec2Model ----
(***************************************************************************)
(* A model of src/email_assistant.py: the EmailAssistant analysis and      *)
(* synthesis pipeline, the SQLite store behind it (tables emails and       *)
(* knowledge_base) and the Flask handlers that drive it.                   *)
(*                                                                         *)
(* Python str values are TLA+ strings; substring tests, regular            *)
(* expression searches, split/join/format are computed character by        *)
(* character as the library functions compute them.                        *)
(***************************************************************************)
EXTENDS Integers, Sequences, FiniteSets, TLC

VARIABLES
    emails,              \* rows of table emails, in rowid order (row i has id i)
    knowledge_base,      \* rows of table knowledge_base, in rowid order
    sentiment_analyzer,  \* self.sentiment_analyzer: "pipeline" or "None"
    clock,               \* the wall clock, in ticks of 1/TicksPerSecond second
    call,                \* the process_email call waiting in the model call
    ticket_log,          \* history: one entry per ticket id generated
    restarts,            \* number of process starts after the first
    last,                \* the most recent call and what it returned
    cursor,              \* self.cursor, as handlers that interleave leave it
    threads              \* the requests in flight, one per server thread

vars == <<emails, knowledge_base, sentiment_analyzer, clock, call,
          ticket_log, restarts, last, cursor, threads>>

-----------------------------------------------------------------------------
(* Bounds of the model.                                                    *)

MaxEmails == 2
MaxClock == 2
TicksPerSecond == 2
MaxSynth == 3
MaxRestarts == 1
MaxThreads == 2

-----------------------------------------------------------------------------
(* Python str operations.                                                  *)

UpperAlpha == "ABCDEFGHIJKLMNOPQRSTUVWXYZ"
LowerAlpha == "abcdefghijklmnopqrstuvwxyz"
Digits == "0123456789"

CharAt(s, i) == SubSeq(s, i, i)

CharsOf(s) == {CharAt(s, i) : i \in 1..Len(s)}

UpperChars == CharsOf(UpperAlpha)
LowerChars == CharsOf(LowerAlpha)
DigitSet == CharsOf(Digits)
LetterSet == UpperChars \cup LowerChars
\* \w of the re module, on ASCII text
WordChars == LetterSet \cup DigitSet \cup {"_"}

IndexIn(alpha, c) == CHOOSE i \in 1..Len(alpha) : CharAt(alpha, i) = c

lower_char(c) ==
    IF c \in UpperChars THEN CharAt(LowerAlpha, IndexIn(UpperAlpha, c)) ELSE c

upper_char(c) ==
    IF c \in LowerChars THEN CharAt(UpperAlpha, IndexIn(LowerAlpha, c)) ELSE c

IsCased(c) == c \in LetterSet

IsWordChar(c) == c \in WordChars

IsSpace(c) == c \in {" ", "\n", "\t", "\r"}

RECURSIVE str_lower(_)
str_lower(s) == IF s = "" THEN "" ELSE lower_char(Head(s)) \o str_lower(Tail(s))

\* str.title(): a cased character is upper case after an uncased one (or at
\* the start) and lower case after a cased one
RECURSIVE title_from(_, _)
title_from(s, prev_cased) ==
    IF s = "" THEN ""
    ELSE LET c == Head(s)
         IN  (IF prev_cased THEN lower_char(c) ELSE upper_char(c))
                 \o title_from(Tail(s), IsCased(c))

str_title(s) == title_from(s, FALSE)

\* sub in s
Contains(sub, s) ==
    \E i \in 1..(Len(s) - Len(sub) + 1) : SubSeq(s, i, i + Len(sub) - 1) = sub

\* s.find(sub) + 1: one-based index of the first occurrence, 0 when absent
Find(sub, s) ==
    LET at == {i \in 1..(Len(s) - Len(sub) + 1) : SubSeq(s, i, i + Len(sub) - 1) = sub}
    IN  IF at = {} THEN 0 ELSE CHOOSE i \in at : \A j \in at : i <= j

\* s.split(sep), sep not empty
RECURSIVE str_split(_, _)
str_split(s, sep) ==
    LET i == Find(sep, s)
    IN  IF i = 0 THEN <<s>>
        ELSE <<SubSeq(s, 1, i - 1)>> \o str_split(SubSeq(s, i + Len(sep), Len(s)), sep)

\* s.replace(old, new), old not empty
RECURSIVE str_replace(_, _, _)
str_replace(s, old, new) ==
    LET i == Find(old, s)
    IN  IF i = 0 THEN s
        ELSE SubSeq(s, 1, i - 1) \o new
                 \o str_replace(SubSeq(s, i + Len(old), Len(s)), old, new)

RECURSIVE lstrip(_)
lstrip(s) == IF s # "" /\ IsSpace(Head(s)) THEN lstrip(Tail(s)) ELSE s

RECURSIVE rstrip(_)
rstrip(s) ==
    IF s # "" /\ IsSpace(CharAt(s, Len(s))) THEN rstrip(SubSeq(s, 1, Len(s) - 1)) ELSE s

str_strip(s) == lstrip(rstrip(s))

\* sep.join(list)
RECURSIVE str_join(_, _)
str_join(sep, list) ==
    IF list = <<>> THEN ""
    ELSE IF Len(list) = 1 THEN list[1]
    ELSE list[1] \o sep \o str_join(sep, Tail(list))

\* the set of the elements of a list: set(list)
ToSet(list) == {list[i] : i \in 1..Len(list)}

\* template.format(**args) for a template whose fields are plain {name}
\* fields; a field that args lacks raises KeyError, shown as the result
\* [ok |-> FALSE]
RECURSIVE str_format(_, _)
str_format(template, args) ==
    LET open == Find("{", template)
    IN  IF open = 0 THEN [ok |-> TRUE, text |-> template]
        ELSE LET after == SubSeq(template, open + 1, Len(template))
                 close == Find("}", after)
                 name  == SubSeq(after, 1, close - 1)
                 rest  == str_format(SubSeq(after, close + 1, Len(after)), args)
             IN  IF name \in DOMAIN args /\ rest.ok
                 THEN [ok |-> TRUE,
                       text |-> SubSeq(template, 1, open - 1) \o args[name] \o rest.text]
                 ELSE [ok |-> FALSE, text |-> ""]

\* position k of text lies between a \w and a non-\w character (or the edge):
\* the regular expression \b between characters k and k+1
WordBoundary(text, k) ==
    LET before == k >= 1 /\ k <= Len(text) /\ IsWordChar(CharAt(text, k))
        after  == k + 1 >= 1 /\ k + 1 <= Len(text) /\ IsWordChar(CharAt(text, k + 1))
    IN  before # after

\* the pattern \bword\b matches text at position i (word in lower case;
\* ignore_case as re.IGNORECASE)
MatchesWordAt(word, text, i, ignore_case) ==
    LET j == i + Len(word) - 1
    IN  /\ j <= Len(text)
        /\ (IF ignore_case THEN str_lower(SubSeq(text, i, j)) ELSE SubSeq(text, i, j)) = word
        /\ WordBoundary(text, i - 1)
        /\ WordBoundary(text, j)

\* re.search(r'\bword\b', text) finds a match
re_search_word(word, text) ==
    \E i \in 1..Len(text) : MatchesWordAt(word, text, i, FALSE)

\* re.findall(r'\b(a1|a2|...)\b', text, re.IGNORECASE) from position i on:
\* the matched groups, left to right, not overlapping; at each position the
\* first alternative that matches is taken
RECURSIVE findall_from(_, _, _)
findall_from(alts, text, i) ==
    IF i > Len(text) THEN <<>>
    ELSE LET hits == {a \in 1..Len(alts) : MatchesWordAt(alts[a], text, i, TRUE)}
         IN  IF hits = {} THEN findall_from(alts, text, i + 1)
             ELSE LET a == CHOOSE x \in hits : \A y \in hits : x <= y
                      n == Len(alts[a])
                  IN  <<SubSeq(text, i, i + n - 1)>> \o findall_from(alts, text, i + n)

re_findall_alt(alts, text) == findall_from(alts, text, 1)

-----------------------------------------------------------------------------
(* The fixed data of EmailAssistant.                                       *)

urgent_keywords ==
    <<"urgent", "critical", "emergency", "asap", "immediately", "cannot access",
      "system down", "not working", "broken", "error", "failed", "blocked",
      "deadline", "production", "outage", "severe", "major issue">>

\* the words w of the patterns r'\bw\b' of determine_priority
time_patterns ==
    <<"asap", "immediately", "urgent", "critical", "emergency", "deadline", "today", "now">>

\* the alternatives of the patterns r'\b(a1|a2|...)\b' of extract_keywords
tech_patterns ==
    << <<"api", "sdk", "webhook", "integration", "database", "server", "application">>,
       <<"error code", "bug", "crash", "timeout", "connection">>,
       <<"account", "login", "password", "authentication", "access">>,
       <<"billing", "payment", "invoice", "subscription", "refund">> >>

positive_words == <<"thank", "great", "excellent", "love", "amazing", "perfect", "wonderful">>

negative_words ==
    <<"problem", "issue", "error", "broken", "frustrated", "angry", "terrible", "awful">>

label_mapping ==
    [l \in {"LABEL_0", "LABEL_1", "LABEL_2", "negative", "neutral", "positive"} |->
        CASE l = "LABEL_0" -> "negative"
          [] l = "LABEL_1" -> "neutral"
          [] l = "LABEL_2" -> "positive"
          [] OTHER -> l]

knowledge_entries ==
    << [category |-> "account_access",
        keywords |-> "login, password, access, account, locked, authentication, signin, credentials",
        solution |-> "For account access issues: 1) Try clearing browser cache and cookies 2) Reset password using \"Forgot Password\" link 3) Check if caps lock is on 4) Try different browser or incognito mode",
        escalation_info |-> "If issue persists after basic troubleshooting, escalate to security team for account unlock"],
       [category |-> "technical_issues",
        keywords |-> "error, bug, broken, not working, technical, system, crash, freeze, slow",
        solution |-> "For technical issues: 1) Check internet connection 2) Clear browser cache 3) Update browser to latest version 4) Try different device 5) Check system status page",
        escalation_info |-> "Complex technical issues should be forwarded to technical support team"],
       [category |-> "billing_payment",
        keywords |-> "billing, payment, invoice, charge, refund, subscription, price, cost, money",
        solution |-> "For billing inquiries: 1) Check your billing portal for invoice details 2) Verify payment method is valid 3) Contact billing support for refund requests",
        escalation_info |-> "Billing disputes require finance team approval"],
       [category |-> "feature_request",
        keywords |-> "feature, request, suggestion, enhancement, improvement, new, add, update",
        solution |-> "Thank you for your feature suggestion! We appreciate your feedback. Please visit our feature request portal to submit detailed requirements.",
        escalation_info |-> "Feature requests should be logged with product team for roadmap consideration"],
       [category |-> "integration_api",
        keywords |-> "api, integration, webhook, developer, code, sdk, documentation, endpoint",
        solution |-> "For API/integration support: 1) Check our developer documentation 2) Verify API key is valid 3) Ensure proper authentication headers 4) Check rate limits",
        escalation_info |-> "Complex integration issues require developer support team assistance"] >>

response_templates ==
    [k \in {"urgent_negative", "normal_positive", "normal_neutral", "urgent_neutral"} |->
        CASE k = "urgent_negative" ->
               "Dear {sender_name},\n\nThank you for reaching out, and I sincerely apologize for the urgent issue you're experiencing. I understand how critical this situation is for you.\n\nI'm prioritizing your request and escalating it to our specialized team immediately. Here's what we're doing to resolve this:\n\n{solution}\n\nExpected resolution time: Within 2 hours\nTicket reference: #{ticket_id}\n\nI'll personally monitor this case and update you every 30 minutes until resolved. You can also reach our emergency support line at +1-800-SUPPORT.\n\nWe truly appreciate your patience during this critical situation.\n\nBest regards,\nAI Support Assistant\nCustomer Success Team"
          [] k = "normal_positive" ->
               "Hello {sender_name},\n\nThank you for your message! We're delighted to hear from you and appreciate your continued trust in our services.\n\n{solution}\n\n{additional_info}\n\nIf you need any further assistance or have additional questions, please don't hesitate to reach out. We're here to ensure you have the best possible experience.\n\nBest regards,\nAI Support Assistant\nCustomer Success Team"
          [] k = "normal_neutral" ->
               "Hello {sender_name},\n\nThank you for contacting us. We're here to help with your inquiry.\n\n{solution}\n\n{additional_info}\n\nIf this doesn't resolve your issue or if you have any other questions, please let us know. We're committed to providing you with the support you need.\n\nBest regards,\nAI Support Assistant\nCustomer Success Team"
          [] k = "urgent_neutral" ->
               "Dear {sender_name},\n\nThank you for your urgent request. I understand the importance of resolving this quickly.\n\nI'm prioritizing your case and here's how we can address this:\n\n{solution}\n\nExpected resolution time: Within 4 hours\nPriority ticket: #{ticket_id}\n\nI'll keep you updated on our progress. For immediate assistance, please call our priority support line.\n\nBest regards,\nAI Support Assistant\nCustomer Success Team"]

\* the return values of find_best_solution when no entry scores
generic_solution ==
    "I'll look into your inquiry and get back to you with a detailed response shortly."

generic_escalation == "General inquiry - route to appropriate team based on content"

-----------------------------------------------------------------------------
(* Sentiment: analyze_sentiment and its rule-based fallback.  A confidence *)
(* is a number of hundredths (0.7 is 70).                                  *)

\* sum(1 for word in words if word in text)
RECURSIVE count_in(_, _)
count_in(words, text) ==
    IF words = <<>> THEN 0
    ELSE (IF Contains(Head(words), text) THEN 1 ELSE 0) + count_in(Tail(words), text)

\* rule_based_sentiment with a tie counted for the positive side
rule_based_sentiment_ties_positive(text) ==
    LET text_lower == str_lower(text)
        positive_count == count_in(positive_words, text_lower)
        negative_count == count_in(negative_words, text_lower)
    IN  IF positive_count >= negative_count THEN <<"positive", 70>>
        ELSE <<"negative", 70>>

rule_based_sentiment(text) ==
    LET text_lower == str_lower(text)
        positive_count == count_in(positive_words, text_lower)
        negative_count == count_in(negative_words, text_lower)
    IN  IF positive_count > negative_count THEN <<"positive", 70>>
        ELSE IF negative_count > positive_count THEN <<"negative", 70>>
        ELSE <<"neutral", 60>>

\* max(items, key=lambda x: x['score']): the first item of the highest score
max_by_score(items) ==
    items[CHOOSE i \in 1..Len(items) :
            /\ \A j \in 1..Len(items) : items[j].score <= items[i].score
            /\ \A j \in 1..(i - 1) : items[j].score < items[i].score]

\* what self.sentiment_analyzer(text) does: it raises, or it returns the
\* value `results`, a list of lists of dicts
model_raises(behaviour) == behaviour.kind = "raise"

\* the try block of analyze_sentiment raises: the call raises, results[0]
\* does not exist, max() of an empty list, or a dict without 'score' or 'label'
primary_fails(behaviour) ==
    \/ model_raises(behaviour)
    \/ behaviour.results = <<>>
    \/ behaviour.results[1] = <<>>
    \/ \E i \in 1..Len(behaviour.results[1]) : "score" \notin DOMAIN behaviour.results[1][i]
    \/ "label" \notin DOMAIN max_by_score(behaviour.results[1])

\* analyze_sentiment answering neutral itself when the model fails, without
\* the rule-based fallback
analyze_sentiment_neutral_on_failure(text, analyzer, behaviour) ==
    IF analyzer # "None"
    THEN IF primary_fails(behaviour)
         THEN <<"neutral", 0>>
         ELSE LET best_result == max_by_score(behaviour.results[1])
              IN  <<IF best_result.label \in DOMAIN label_mapping
                    THEN label_mapping[best_result.label]
                    ELSE "neutral",
                    best_result.score>>
    ELSE rule_based_sentiment(text)

analyze_sentiment(text, analyzer, behaviour) ==
    IF analyzer # "None"
    THEN IF primary_fails(behaviour)
         THEN rule_based_sentiment(text)
         ELSE LET best_result == max_by_score(behaviour.results[1])
                  sentiment == IF best_result.label \in DOMAIN label_mapping
                               THEN label_mapping[best_result.label]
                               ELSE "neutral"
                  confidence == best_result.score
              IN  <<sentiment, confidence>>
    ELSE rule_based_sentiment(text)

-----------------------------------------------------------------------------
(* Priority.                                                               *)

\* sum(1 for pattern in time_patterns if re.search(pattern, text))
RECURSIVE count_search(_, _)
count_search(words, text) ==
    IF words = <<>> THEN 0
    ELSE (IF re_search_word(Head(words), text) THEN 1 ELSE 0)
             + count_search(Tail(words), text)

\* determine_priority with the threshold at one hit
determine_priority_one_hit(subject, body) ==
    LET text == str_lower(subject \o " " \o body)
    IN  IF count_in(urgent_keywords, text) + count_search(time_patterns, text) >= 1
        THEN "urgent"
        ELSE "normal"

determine_priority(subject, body) ==
    LET text == str_lower(subject \o " " \o body)
        urgent_score == count_in(urgent_keywords, text)
        time_urgency == count_search(time_patterns, text)
        total_urgency == urgent_score + time_urgency
    IN  IF total_urgency >= 2 THEN "urgent" ELSE "normal"

-----------------------------------------------------------------------------
(* Keywords.                                                               *)

\* keywords.extend(matches) for each pattern of tech_patterns in turn
RECURSIVE tech_matches(_, _)
tech_matches(patterns, text) ==
    IF patterns = <<>> THEN <<>>
    ELSE re_findall_alt(Head(patterns), text) \o tech_matches(Tail(patterns), text)

\* the urgent keywords found in text_lower (text.lower()), in list order
RECURSIVE urgent_found(_, _)
urgent_found(words, text_lower) ==
    IF words = <<>> THEN <<>>
    ELSE (IF Contains(Head(words), text_lower) THEN <<Head(words)>> ELSE <<>>)
             \o urgent_found(Tail(words), text_lower)

\* the list `keywords` before line 305
keywords_seen(text) ==
    tech_matches(tech_patterns, text) \o urgent_found(urgent_keywords, str_lower(text))

\* list(set(x)): the elements of the set in an order the language leaves
\* open (for str it changes with the hash seed of the process)
list_of_set(S) ==
    {p \in [1..Cardinality(S) -> S] : \A i, j \in 1..Cardinality(S) : p[i] = p[j] => i = j}

\* x[:n]
Take(x, n) == SubSeq(x, 1, IF Len(x) < n THEN Len(x) ELSE n)

\* the lists extract_keywords(text) can return
extract_keywords(text) == {Take(p, 10) : p \in list_of_set(ToSet(keywords_seen(text)))}

-----------------------------------------------------------------------------
(* Knowledge base matching.                                                *)

\* [kw.strip() for kw in kb_keywords.split(',')]
RECURSIVE strip_all(_)
strip_all(list) ==
    IF list = <<>> THEN <<>> ELSE <<str_strip(Head(list))>> \o strip_all(Tail(list))

\* sum(1 for kw in kb_keywords_list if kw.lower() in text_lower), where
\* text_lower is text.lower()
RECURSIVE text_similarity(_, _)
text_similarity(kb_keywords_list, text_lower) ==
    IF kb_keywords_list = <<>> THEN 0
    ELSE (IF Contains(str_lower(Head(kb_keywords_list)), text_lower) THEN 1 ELSE 0)
             + text_similarity(Tail(kb_keywords_list), text_lower)

\* total_score of one row of knowledge_base
total_score(row, keywords, text) ==
    LET kb_keywords_list == strip_all(str_split(row.keywords, ","))
        overlap == Cardinality(ToSet(keywords) \cap ToSet(kb_keywords_list))
    IN  overlap * 2 + text_similarity(kb_keywords_list, str_lower(text))

\* the loop of find_best_solution with >= for >: the last of the rows of
\* equal score is kept
RECURSIVE best_over_last_wins(_, _, _, _, _)
best_over_last_wins(kb_entries, keywords, text, best_match, best_score) ==
    IF kb_entries = <<>> THEN best_match
    ELSE LET row == Head(kb_entries)
             score == total_score(row, keywords, text)
         IN  IF score >= best_score /\ score > 0
             THEN best_over_last_wins(Tail(kb_entries), keywords, text,
                                      <<row.solution, row.escalation_info>>, score)
             ELSE best_over_last_wins(Tail(kb_entries), keywords, text,
                                      best_match, best_score)

\* the loop of find_best_solution over the rows still to visit;
\* best_match is <<>> for None
RECURSIVE best_over(_, _, _, _, _)
best_over(kb_entries, keywords, text, best_match, best_score) ==
    IF kb_entries = <<>> THEN best_match
    ELSE LET row == Head(kb_entries)
             score == total_score(row, keywords, text)
         IN  IF score > best_score
             THEN best_over(Tail(kb_entries), keywords, text,
                            <<row.solution, row.escalation_info>>, score)
             ELSE best_over(Tail(kb_entries), keywords, text, best_match, best_score)

\* kb_entries: the rows SELECT ... FROM knowledge_base returns (rowid order)
find_best_solution(keywords, subject, body, kb_entries) ==
    LET text == subject \o " " \o body
        best_match == best_over(kb_entries, keywords, text, <<>>, 0)
    IN  IF best_match # <<>>
        THEN best_match
        ELSE <<generic_solution, generic_escalation>>

-----------------------------------------------------------------------------
(* Contact information and requirements.                                   *)

\* A regular expression that is a sequence of greedy character-class
\* repetitions [cls]{lo,hi} (hi = -1: no upper limit) and \b assertions,
\* matched with backtracking at
\* position i: the index of the last character matched (i - 1 for an empty
\* match), or -1 when there is no match
RECURSIVE re_match_end(_, _, _)
re_match_end(elems, text, i) ==
    IF elems = <<>> THEN i - 1
    ELSE LET e == Head(elems)
         IN  IF e.kind = "b"
             THEN IF WordBoundary(text, i - 1)
                  THEN re_match_end(Tail(elems), text, i)
                  ELSE -1
             ELSE LET fits(n) == /\ i + n - 1 <= Len(text)
                                 /\ \A k \in i..(i + n - 1) : CharAt(text, k) \in e.cls
                      top == IF e.hi = -1 \/ e.hi > Len(text) THEN Len(text) ELSE e.hi
                      ok == {n \in e.lo..top :
                                fits(n) /\ re_match_end(Tail(elems), text, i + n) # -1}
                  IN  IF ok = {} THEN -1
                      ELSE re_match_end(Tail(elems), text,
                                        i + (CHOOSE n \in ok : \A m \in ok : m <= n))

\* re.findall(pattern, text)[:1] for such a pattern: the leftmost match, as
\* a list of at most one string
re_first(elems, text) ==
    LET starts == {i \in 1..Len(text) : re_match_end(elems, text, i) >= i}
    IN  IF starts = {} THEN <<>>
        ELSE LET i == CHOOSE x \in starts : \A y \in starts : x <= y
             IN  <<SubSeq(text, i, re_match_end(elems, text, i))>>

Rep(cls, lo, hi) == [kind |-> "rep", cls |-> cls, lo |-> lo, hi |-> hi]
Opt(cls) == Rep(cls, 0, 1)
Lit(c) == Rep({c}, 1, 1)
AtLeast(cls, lo) == Rep(cls, lo, -1)
\* [-.\s]
SepSet == {"-", ".", " ", "\t", "\n", "\r", "\f"}

\* r'(\+?\d{1,3}[-.\s]?\(?\d{3}\)?[-.\s]?\d{3}[-.\s]?\d{4})'
phone_pattern ==
    <<Opt({"+"}), Rep(DigitSet, 1, 3), Opt(SepSet), Opt({"("}), Rep(DigitSet, 3, 3),
      Opt({")"}), Opt(SepSet), Rep(DigitSet, 3, 3), Opt(SepSet), Rep(DigitSet, 4, 4)>>

\* r'\b[A-Za-z0-9._%+-]+@[A-Za-z0-9.-]+\.[A-Z|a-z]{2,}\b'
email_pattern ==
    <<[kind |-> "b"],
      AtLeast(LetterSet \cup DigitSet \cup {".", "_", "%", "+", "-"}, 1),
      Lit("@"),
      AtLeast(LetterSet \cup DigitSet \cup {".", "-"}, 1),
      Lit("."),
      AtLeast(LetterSet \cup {"|"}, 2),
      [kind |-> "b"]>>

\* the alternatives of r'(@\w+|linkedin\.com/in/\w+|twitter\.com/\w+)':
\* a literal prefix followed by \w+
social_prefixes == <<"@", "linkedin.com/in/", "twitter.com/">>

\* the end of the match of social_pattern (re.IGNORECASE) at position i, or -1
social_end_at(text, i) ==
    LET hits == {a \in 1..Len(social_prefixes) :
                    LET n == Len(social_prefixes[a])
                    IN  /\ i + n <= Len(text)
                        /\ str_lower(SubSeq(text, i, i + n - 1)) = social_prefixes[a]
                        /\ IsWordChar(CharAt(text, i + n))}
    IN  IF hits = {} THEN -1
        ELSE LET a == CHOOSE x \in hits : \A y \in hits : x <= y
                 from == i + Len(social_prefixes[a])
             IN  CHOOSE j \in from..Len(text) :
                    /\ \A k \in from..j : IsWordChar(CharAt(text, k))
                    /\ (j = Len(text) \/ ~IsWordChar(CharAt(text, j + 1)))

social_first(text) ==
    LET starts == {i \in 1..Len(text) : social_end_at(text, i) # -1}
    IN  IF starts = {} THEN <<>>
        ELSE LET i == CHOOSE x \in starts : \A y \in starts : x <= y
             IN  <<SubSeq(text, i, social_end_at(text, i))>>

extract_contact_info(text) ==
    LET phones == re_first(phone_pattern, text)
        mails == re_first(email_pattern, text)
        social == social_first(text)
        contact_info ==
            (IF phones # <<>> THEN <<"Phone: " \o phones[1]>> ELSE <<>>)
            \o (IF mails # <<>> THEN <<"Alt Email: " \o mails[1]>> ELSE <<>>)
            \o (IF social # <<>> THEN <<"Social: " \o social[1]>> ELSE <<>>)
    IN  IF contact_info # <<>> THEN str_join("; ", contact_info)
        ELSE "No additional contact info found"

\* the first groups of the patterns r'(t1|t2|...) ([^.!?]*)' of
\* extract_requirements
requirement_patterns ==
    << <<"need", "want", "require", "request", "looking for", "help with">>,
       <<"can you", "could you", "please">>,
       <<"i would like", "i want", "i need">> >>

\* re.findall(r'(t1|t2|...) ([^.!?]*)', text, re.IGNORECASE) from position i
\* on: the pairs of groups
RECURSIVE findall_req(_, _, _)
findall_req(alts, text, i) ==
    IF i > Len(text) THEN <<>>
    ELSE LET hits == {a \in 1..Len(alts) :
                         LET n == Len(alts[a])
                         IN  /\ i + n <= Len(text)
                             /\ str_lower(SubSeq(text, i, i + n - 1)) = alts[a]
                             /\ CharAt(text, i + n) = " "}
         IN  IF hits = {} THEN findall_req(alts, text, i + 1)
             ELSE LET a == CHOOSE x \in hits : \A y \in hits : x <= y
                      n == Len(alts[a])
                      from == i + n + 1
                      stops == {k \in from..Len(text) : CharAt(text, k) \in {".", "!", "?"}}
                      to == IF stops = {} THEN Len(text)
                            ELSE (CHOOSE k \in stops : \A m \in stops : k <= m) - 1
                  IN  << <<SubSeq(text, i, i + n - 1), SubSeq(text, from, to)>> >>
                          \o findall_req(alts, text, to + 1)

\* the requirements one pattern adds: of its first three matches those whose
\* joined, stripped text is longer than 10 characters
RECURSIVE kept_requirements(_)
kept_requirements(matches) ==
    IF matches = <<>> THEN <<>>
    ELSE LET requirement == str_strip(str_join(" ", Head(matches)))
         IN  (IF Len(requirement) > 10 THEN <<requirement>> ELSE <<>>)
                 \o kept_requirements(Tail(matches))

RECURSIVE requirements_of(_, _)
requirements_of(patterns, text) ==
    IF patterns = <<>> THEN <<>>
    ELSE kept_requirements(Take(findall_req(Head(patterns), text, 1), 3))
             \o requirements_of(Tail(patterns), text)

extract_requirements(subject, body) ==
    LET text == subject \o " " \o body
        requirements == requirements_of(requirement_patterns, text)
    IN  IF requirements # <<>> THEN str_join("; ", requirements)
        ELSE "General support inquiry"

-----------------------------------------------------------------------------
(* Response synthesis.                                                     *)

two_digits(n) == CharAt(Digits, (n \div 10) + 1) \o CharAt(Digits, (n % 10) + 1)

\* datetime.datetime.now().strftime('%Y%m%d%H%M%S') when the clock shows
\* `now` ticks after 2024-01-01 00:00:00, within that day
strftime_now(now) ==
    LET sec == now \div TicksPerSecond
    IN  "20240101" \o two_digits(sec \div 3600) \o two_digits((sec \div 60) % 60)
            \o two_digits(sec % 60)

\* a ticket id of the format '%Y%m%d%H%M', without the seconds
new_ticket_id_minutes(now) ==
    "SUP" \o SubSeq(strftime_now(now), 1, Len(strftime_now(now)) - 2)

\* f"SUP{datetime.datetime.now().strftime('%Y%m%d%H%M%S')}"
new_ticket_id(now) == "SUP" \o strftime_now(now)

\* email_data['sender'].split('@')[0].replace('.', ' ').title()
sender_name_of(sender) == str_title(str_replace(str_split(sender, "@")[1], ".", " "))

\* template_key_for with urgent_neutral as the fallback
template_key_for_urgent_fallback(priority, sentiment) ==
    LET template_key == priority \o "_" \o sentiment
    IN  IF template_key \notin DOMAIN response_templates
        THEN "urgent_neutral"
        ELSE template_key

\* template_key_for looking among the templates of normal priority only
template_key_for_normal_only(priority, sentiment) ==
    LET template_key == "normal_" \o sentiment
    IN  IF template_key \notin DOMAIN response_templates
        THEN "normal_neutral"
        ELSE template_key

\* the template generate_ai_response uses for a priority and a sentiment
template_key_for(priority, sentiment) ==
    LET template_key == priority \o "_" \o sentiment
    IN  IF template_key \notin DOMAIN response_templates
        THEN "normal_neutral"
        ELSE template_key

\* the string the except clause of generate_ai_response returns
fallback_response(sender_name) ==
    "Dear " \o sender_name
        \o ",\n\nThank you for contacting us. We've received your message and will respond within 24 hours.\n\nBest regards,\nSupport Team"

GenResult(raised, response, template_key, ticket_id) ==
    [raised |-> raised, response |-> response, template_key |-> template_key,
     ticket_id |-> ticket_id]

\* email_data is a dict: a function from the keys it has to strings.  The
\* result says whether an exception left the call (raised), the string
\* returned, and the template key and ticket id computed on the way ("" when
\* the call did not get that far).
generate_ai_response(email_data, kb_entries, now) ==
    LET has(key) == key \in DOMAIN email_data
        \* the first subscript of the try block that raises KeyError, if any
        try_completes ==
            \A key \in {"sender", "sentiment", "priority", "keywords", "subject", "body"} :
                has(key)
    IN  IF try_completes
        THEN LET sender_name == sender_name_of(email_data.sender)
                 sentiment == email_data.sentiment
                 priority == email_data.priority
                 keywords == IF email_data.keywords # ""
                             THEN str_split(email_data.keywords, ", ")
                             ELSE <<>>
                 found == find_best_solution(keywords, email_data.subject,
                                             email_data.body, kb_entries)
                 solution == found[1]
                 escalation == found[2]
                 template_key == template_key_for(priority, sentiment)
                 template == response_templates[template_key]
                 ticket_id == new_ticket_id(now)
                 additional_info ==
                     IF Contains("thank", str_lower(email_data.body))
                     THEN "We truly appreciate your positive feedback!"
                     ELSE IF priority = "urgent"
                     THEN "This case has been escalated. " \o escalation
                     ELSE ""
                 response == str_format(template,
                                        [sender_name |-> sender_name,
                                         solution |-> solution,
                                         ticket_id |-> ticket_id,
                                         additional_info |-> additional_info])
             IN  IF response.ok
                 THEN GenResult(FALSE, response.text, template_key, ticket_id)
                 ELSE GenResult(FALSE, fallback_response(sender_name), template_key, ticket_id)
        ELSE IF has("sender")
        \* sender_name was assigned before the KeyError
        THEN GenResult(FALSE, fallback_response(sender_name_of(email_data.sender)), "", "")
        \* the except clause reads the unassigned sender_name: UnboundLocalError
        ELSE GenResult(TRUE, "", "", "")

-----------------------------------------------------------------------------
(* The store and the requests the handlers are driven with.                *)

\* the rows load_knowledge_base inserts into a table that holds `table`:
\* no column of knowledge_base but the AUTOINCREMENT id is unique, so
\* INSERT OR REPLACE never replaces
load_knowledge_base(table) ==
    table \o [i \in 1..Len(knowledge_entries) |->
                [id |-> Len(table) + i,
                 category |-> knowledge_entries[i].category,
                 keywords |-> knowledge_entries[i].keywords,
                 solution |-> knowledge_entries[i].solution,
                 escalation_info |-> knowledge_entries[i].escalation_info]]

\* CURRENT_TIMESTAMP: the clock in whole seconds
current_timestamp(now) == now \div TicksPerSecond

\* what load_ai_models can leave in self.sentiment_analyzer
Analyzers == {"pipeline", "None"}

\* bodies of POST /api/process_email
Inbound ==
    { [sender |-> "john.doe@example.com", subject |-> "Help", body |-> "This is urgent"],
      [sender |-> "user@example.com", subject |-> "login error",
       body |-> "I get an error at login"] }

\* a request body that lacks a field
Incomplete == [sender |-> "user@example.com", subject |-> "", body |-> "This is urgent"]

Scores(l1, s1, l2, s2) == << <<[label |-> l1, score |-> s1], [label |-> l2, score |-> s2]>> >>

\* what the call self.sentiment_analyzer(text) does: it returns a value,
\* raises, or does not return
ReturningBehaviours ==
    { [kind |-> "raise"],
      [kind |-> "return", results |-> Scores("LABEL_1", 30, "LABEL_2", 70)] }

Hang == [kind |-> "hang"]

\* no call is made (the model is not loaded)
NotCalled == [kind |-> "none"]

EmailIds == 1..MaxEmails

NoCall == [active |-> FALSE, sender |-> "", subject |-> "", body |-> "",
           behaviour |-> NotCalled]

Started == [op |-> "__init__", code |-> 0]

\* self.conn.cursor(): no statement executed, lastrowid None (0)
NewCursor == [query |-> "", rows |-> <<>>, lastrowid |-> 0]

\* the threads of the server, which handle one request each at a time
Threads == 1..MaxThreads

\* a thread that handles no request
Idle == [pc |-> "idle"]

\* what the model call of a process_email can do and return from: nothing
\* when no model is loaded
ModelCalls(analyzer) == IF analyzer = "None" THEN {NotCalled} ELSE ReturningBehaviours

\* the table knowledge_base after n starts
RECURSIVE LoadedTimes(_)
LoadedTimes(n) == IF n = 0 THEN <<>> ELSE load_knowledge_base(LoadedTimes(n - 1))

\* what fetchall can return for the SELECT of find_best_solution: the table,
\* or no row when the rows of the cursor have been fetched already
KnowledgeBases == {LoadedTimes(n) : n \in 0..(MaxRestarts + 1)}

-----------------------------------------------------------------------------
(* process_email.                                                          *)

\* the dicts email_data that process_email can build for a request (one for
\* each order extract_keywords can return), without date_received
email_data_of(inbound, analyzer, behaviour) ==
    LET sentiment == analyze_sentiment(inbound.body, analyzer, behaviour)[1]
        priority == determine_priority(inbound.subject, inbound.body)
        contact_info == extract_contact_info(inbound.body)
        requirements == extract_requirements(inbound.subject, inbound.body)
    IN  { [sender |-> inbound.sender,
           subject |-> inbound.subject,
           body |-> inbound.body,
           priority |-> priority,
           sentiment |-> sentiment,
           keywords |-> str_join(", ", keywords),
           contact_info |-> contact_info,
           requirements |-> requirements] :
          keywords \in extract_keywords(inbound.subject \o " " \o inbound.body) }

\* email_data_of, computed once for each request of the model (no dict
\* for a model call the analyzer cannot make)
email_data_table ==
    [inbound \in Inbound, analyzer \in Analyzers,
     behaviour \in ReturningBehaviours \cup {NotCalled} |->
        IF behaviour \in ModelCalls(analyzer)
        THEN email_data_of(inbound, analyzer, behaviour)
        ELSE {}]

\* the dict regenerate_response builds from a row
RowData(row) ==
    [sender |-> row.sender,
     subject |-> row.subject,
     body |-> row.body,
     priority |-> row.priority,
     sentiment |-> row.sentiment,
     keywords |-> row.keywords]

\* the dicts process_email builds in the model
BuiltData ==
    UNION {email_data_table[r] :
              r \in Inbound \X Analyzers \X (ReturningBehaviours \cup {NotCalled})}

\* the dicts generate_ai_response is called with in the model: those, and
\* the dicts regenerate_response builds from the rows made of them
SynthInputs == UNION {{d, RowData(d)} : d \in BuiltData}

\* generate_ai_response, computed once for each call of the model
generate_table ==
    [email_data \in SynthInputs, kb_entries \in KnowledgeBases, now \in 0..MaxClock |->
        generate_ai_response(email_data, kb_entries, now)]

\* the row INSERT INTO emails adds
NewRow(id, email_data, ai_response, now) ==
    [id |-> id,
     sender |-> email_data.sender,
     subject |-> email_data.subject,
     body |-> email_data.body,
     date_received |-> current_timestamp(now),
     priority |-> email_data.priority,
     sentiment |-> email_data.sentiment,
     keywords |-> email_data.keywords,
     contact_info |-> email_data.contact_info,
     requirements |-> email_data.requirements,
     ai_response |-> ai_response,
     status |-> "pending"]

\* the ticket log after a call of generate_ai_response
Logged(gen) ==
    IF gen.ticket_id # ""
    THEN Append(ticket_log, [ticket_id |-> gen.ticket_id, at |-> current_timestamp(clock)])
    ELSE ticket_log

\* process_email from the return of generate_ai_response (gen) on
StoreProcessed(email_data, gen) ==
    IF gen.raised
    THEN /\ last' = [op |-> "process_email", code |-> 500]
         /\ UNCHANGED <<emails, ticket_log>>
    ELSE /\ emails' = Append(emails, NewRow(Len(emails) + 1, email_data, gen.response, clock))
         /\ ticket_log' = Logged(gen)
         /\ last' = [op |-> "process_email", code |-> 200, id |-> Len(emails) + 1]

\* process_email(sender, subject, body), the model call behaving as given
process_email(inbound, behaviour) ==
    \E email_data \in email_data_table[inbound, sentiment_analyzer, behaviour] :
        StoreProcessed(email_data, generate_table[email_data, knowledge_base, clock])

-----------------------------------------------------------------------------
(* The handlers.                                                           *)

Init ==
    /\ emails = <<>>
    /\ knowledge_base = load_knowledge_base(<<>>)
    /\ sentiment_analyzer \in Analyzers
    /\ clock = 0
    /\ call = NoCall
    /\ ticket_log = <<>>
    /\ restarts = 0
    /\ last = Started
    /\ cursor = NewCursor
    /\ threads = [t \in Threads |-> Idle]

Tick ==
    /\ clock < MaxClock
    /\ clock' = clock + 1
    /\ UNCHANGED <<emails, knowledge_base, sentiment_analyzer, call, ticket_log,
                   restarts, last, cursor, threads>>

\* the process is started again on the database file: EmailAssistant()
Restart ==
    /\ restarts < MaxRestarts
    /\ restarts' = restarts + 1
    /\ knowledge_base' = load_knowledge_base(knowledge_base)
    /\ sentiment_analyzer' \in Analyzers
    /\ call' = NoCall
    /\ last' = Started
    /\ cursor' = NewCursor
    /\ threads' = [t \in Threads |-> Idle]
    /\ UNCHANGED <<emails, clock, ticket_log>>

\* POST /api/process_email with a field missing or empty: 400
ProcessEmailRejected ==
    /\ ~(Incomplete.sender # "" /\ Incomplete.subject # "" /\ Incomplete.body # "")
    /\ last' = [op |-> "process_email", code |-> 400]
    /\ UNCHANGED <<emails, knowledge_base, sentiment_analyzer, clock, call,
                   ticket_log, restarts, cursor, threads>>

\* POST /api/process_email, the model call (made when a model is loaded)
\* returning or raising
ProcessEmail(inbound, behaviour) ==
    /\ Len(emails) < MaxEmails
    /\ Len(ticket_log) < MaxSynth
    /\ inbound.sender # "" /\ inbound.subject # "" /\ inbound.body # ""
    /\ process_email(inbound, behaviour)
    /\ UNCHANGED <<knowledge_base, sentiment_analyzer, clock, call, restarts,
                   cursor, threads>>

\* UPDATE emails SET column = value, without the WHERE clause
UpdateWhereId_every_row(table, email_id, column, value) ==
    [i \in 1..Len(table) |-> [table[i] EXCEPT ![column] = value]]

\* UPDATE emails SET column = value WHERE id = email_id
UpdateWhereId(table, email_id, column, value) ==
    [i \in 1..Len(table) |->
        IF table[i].id = email_id THEN [table[i] EXCEPT ![column] = value] ELSE table[i]]

\* POST /api/send_response
SendResponse(email_id) ==
    /\ emails' = UpdateWhereId(emails, email_id, "status", "resolved")
    /\ last' = [op |-> "send_response", code |-> 200, id |-> email_id]
    /\ UNCHANGED <<knowledge_base, sentiment_analyzer, clock, call, ticket_log, restarts,
                   cursor, threads>>

\* StoreRegenerated writing the row back as a new one, status 'pending'
StoreRegenerated_resets_status(email_id, gen) ==
    IF gen.raised
    THEN /\ last' = [op |-> "regenerate_response", code |-> 500, id |-> email_id]
         /\ UNCHANGED <<emails, ticket_log>>
    ELSE /\ emails' = UpdateWhereId(UpdateWhereId(emails, email_id, "ai_response", gen.response),
                                    email_id, "status", "pending")
         /\ ticket_log' = Logged(gen)
         /\ last' = [op |-> "regenerate_response", code |-> 200, id |-> email_id]

\* regenerate_response from the return of generate_ai_response (gen) on
StoreRegenerated(email_id, gen) ==
    IF gen.raised
    THEN /\ last' = [op |-> "regenerate_response", code |-> 500, id |-> email_id]
         /\ UNCHANGED <<emails, ticket_log>>
    ELSE /\ emails' = UpdateWhereId(emails, email_id, "ai_response", gen.response)
         /\ ticket_log' = Logged(gen)
         /\ last' = [op |-> "regenerate_response", code |-> 200, id |-> email_id]

\* POST /api/regenerate_response
RegenerateResponse(email_id) ==
    /\ Len(ticket_log) < MaxSynth
    /\ IF \A i \in 1..Len(emails) : emails[i].id # email_id
       THEN /\ last' = [op |-> "regenerate_response", code |-> 404, id |-> email_id]
            /\ UNCHANGED <<emails, ticket_log>>
       ELSE StoreRegenerated(email_id,
                generate_table[RowData(emails[CHOOSE i \in 1..Len(emails) :
                                                  emails[i].id = email_id]),
                               knowledge_base, clock])
    /\ UNCHANGED <<knowledge_base, sentiment_analyzer, clock, call, restarts,
                   cursor, threads>>

\* OrderedBefore with the received times ascending
OrderedBefore_oldest_first(a, b) ==
    LET rank(r) == IF r.priority = "urgent" THEN 1 ELSE 2
    IN  \/ rank(a) < rank(b)
        \/ rank(a) = rank(b) /\ a.date_received <= b.date_received

\* ORDER BY CASE WHEN priority = 'urgent' THEN 1 ELSE 2 END, date_received DESC:
\* row a may come before row b
OrderedBefore(a, b) ==
    LET rank(r) == IF r.priority = "urgent" THEN 1 ELSE 2
    IN  \/ rank(a) < rank(b)
        \/ rank(a) = rank(b) /\ a.date_received >= b.date_received

\* the orders in which a SELECT with that ORDER BY can return the rows of
\* the given positions (rows of equal keys come in either order)
Listings(positions) ==
    {p \in list_of_set(positions) :
        \A i, j \in 1..Len(p) : i < j => OrderedBefore(emails[p[i]], emails[p[j]])}

\* GET /api/emails: the rows returned, named by their ids
GetAllEmails ==
    /\ \E p \in Listings(1..Len(emails)) :
          last' = [op |-> "get_all_emails", code |-> 200,
                   result |-> [i \in 1..Len(p) |-> emails[p[i]].id]]
    /\ UNCHANGED <<emails, knowledge_base, sentiment_analyzer, clock, call,
                   ticket_log, restarts, cursor, threads>>

\* GET /api/filter_emails; "" is a parameter that is not given
FilterEmails(priority, sentiment) ==
    /\ LET matching == {i \in 1..Len(emails) :
                           /\ priority # "" => emails[i].priority = priority
                           /\ sentiment # "" => emails[i].sentiment = sentiment}
       IN  \E p \in Listings(matching) :
              last' = [op |-> "filter_emails", code |-> 200,
                       priority |-> priority, sentiment |-> sentiment,
                       result |-> [i \in 1..Len(p) |-> emails[p[i]].id]]
    /\ UNCHANGED <<emails, knowledge_base, sentiment_analyzer, clock, call,
                   ticket_log, restarts, cursor, threads>>

\* SELECT column, COUNT(*) FROM emails GROUP BY column, as a dict
CountBy(column) ==
    [v \in {emails[i][column] : i \in 1..Len(emails)} |->
        Cardinality({i \in 1..Len(emails) : emails[i][column] = v})]

\* counts.get(key, 0)
GetOr0(counts, key) == IF key \in DOMAIN counts THEN counts[key] ELSE 0

\* GET /api/analytics
GetAnalytics ==
    /\ LET priority_counts == CountBy("priority")
           sentiment_counts == CountBy("sentiment")
           status_counts == CountBy("status")
           total_emails == Len(emails)
           recent_emails ==
               Cardinality({i \in 1..Len(emails) :
                   emails[i].date_received >= current_timestamp(clock) - 86400})
       IN  last' = [op |-> "get_analytics", code |-> 200,
                    result |-> [total_emails |-> total_emails,
                                recent_emails |-> recent_emails,
                                urgent_emails |-> GetOr0(priority_counts, "urgent"),
                                resolved_emails |-> GetOr0(status_counts, "resolved"),
                                pending_emails |-> GetOr0(status_counts, "pending"),
                                priority_breakdown |-> priority_counts,
                                sentiment_breakdown |-> sentiment_counts,
                                status_breakdown |-> status_counts]]
    /\ UNCHANGED <<emails, knowledge_base, sentiment_analyzer, clock, call,
                   ticket_log, restarts, cursor, threads>>

Next ==
    \/ Tick
    \/ Restart
    \/ ProcessEmailRejected
    \/ \E inbound \in Inbound, behaviour \in ModelCalls(sentiment_analyzer) :
          ProcessEmail(inbound, behaviour)
    \/ \E email_id \in EmailIds : SendResponse(email_id)
    \/ \E email_id \in EmailIds : RegenerateResponse(email_id)
    \/ GetAllEmails
    \/ \E priority \in {"", "urgent"}, sentiment \in {"", "neutral"} :
          FilterEmails(priority, sentiment)
    \/ GetAnalytics

Spec == Init /\ [][Next]_vars

-----------------------------------------------------------------------------
(* The functions of the pipeline called one at a time: a call of one       *)
(* function, with arguments of the sets below, on the assistant as it was  *)
(* constructed (or constructed again on the same database file).           *)

WordSet == {"urgent", "urgently", "Today", "know", "error", "great", "Thanks", "login"}

\* texts of at most one word
Subjects == {""} \cup WordSet

\* texts of at most two words
Bodies == Subjects \cup {a \o " " \o b : a, b \in WordSet}

\* what self.sentiment_analyzer(text) can do when it does return or raise:
\* well-formed scores, labels of either taxonomy, a label label_mapping
\* lacks, and values the try block cannot read
ModelOutcomes ==
    ReturningBehaviours \cup
    { [kind |-> "return", results |-> Scores("LABEL_0", 90, "LABEL_2", 10)],
      [kind |-> "return", results |-> Scores("positive", 80, "negative", 20)],
      [kind |-> "return", results |-> Scores("5 stars", 60, "LABEL_1", 40)],
      [kind |-> "return", results |-> <<>>],
      [kind |-> "return", results |-> << <<>> >>],
      [kind |-> "return", results |-> << <<[label |-> "LABEL_2"]>> >>],
      [kind |-> "return", results |-> << <<[score |-> 90], [label |-> "LABEL_0", score |-> 10]>> >>] }

\* the model calls analyze_sentiment can make
Outcomes(analyzer) == IF analyzer = "None" THEN {NotCalled} ELSE ModelOutcomes

\* values of the parameter keywords of find_best_solution
KeywordLists ==
    {<<>>, <<"login">>, <<"error">>, <<"error", "login">>, <<"billing", "refund">>}

\* the keys generate_ai_response reads
Fields == {"sender", "sentiment", "priority", "keywords", "subject", "body"}

\* analysis records with every field
CompleteRecords ==
    [sender : {"john.doe@example.com"},
     subject : {"Help"},
     body : {"Thanks", "error"},
     priority : {"normal", "urgent"},
     sentiment : {"positive", "neutral", "negative"},
     keywords : {"", "error, login"}]

\* a dict without the given keys
Without(record, keys) == [k \in (DOMAIN record) \ keys |-> record[k]]

BaseRecord ==
    [sender |-> "john.doe@example.com", subject |-> "Help", body |-> "error",
     priority |-> "urgent", sentiment |-> "negative", keywords |-> "error, login"]

\* malformed analysis records: some of the fields are missing
MalformedRecords == {Without(BaseRecord, missing) : missing \in (SUBSET Fields) \ {{}}}

AnalysisRecords == CompleteRecords \cup MalformedRecords

CallDeterminePriority ==
    /\ last = Started
    /\ \E subject \in Subjects, body \in Bodies :
          last' = [op |-> "determine_priority", subject |-> subject, body |-> body,
                   result |-> determine_priority(subject, body)]
    /\ UNCHANGED <<emails, knowledge_base, sentiment_analyzer, clock, call,
                   ticket_log, restarts, cursor, threads>>

CallRuleBasedSentiment ==
    /\ last = Started
    /\ \E text \in Bodies :
          last' = [op |-> "rule_based_sentiment", text |-> text,
                   result |-> rule_based_sentiment(text)]
    /\ UNCHANGED <<emails, knowledge_base, sentiment_analyzer, clock, call,
                   ticket_log, restarts, cursor, threads>>

CallAnalyzeSentiment ==
    /\ last = Started
    /\ \E text \in Subjects, behaviour \in Outcomes(sentiment_analyzer) :
          last' = [op |-> "analyze_sentiment", text |-> text,
                   analyzer |-> sentiment_analyzer, behaviour |-> behaviour,
                   result |-> analyze_sentiment(text, sentiment_analyzer, behaviour)]
    /\ UNCHANGED <<emails, knowledge_base, sentiment_analyzer, clock, call,
                   ticket_log, restarts, cursor, threads>>

CallExtractKeywords ==
    /\ last = Started
    /\ \E text \in Bodies :
          \E result \in extract_keywords(text) :
              last' = [op |-> "extract_keywords", text |-> text, result |-> result]
    /\ UNCHANGED <<emails, knowledge_base, sentiment_analyzer, clock, call,
                   ticket_log, restarts, cursor, threads>>

CallFindBestSolution ==
    /\ last = Started
    /\ \E keywords \in KeywordLists, subject \in Subjects, body \in Subjects :
          last' = [op |-> "find_best_solution", keywords |-> keywords,
                   subject |-> subject, body |-> body,
                   result |-> find_best_solution(keywords, subject, body, knowledge_base)]
    /\ UNCHANGED <<emails, knowledge_base, sentiment_analyzer, clock, call,
                   ticket_log, restarts, cursor, threads>>

CallGenerateAiResponse ==
    /\ last = Started
    /\ \E email_data \in AnalysisRecords :
          last' = [op |-> "generate_ai_response", email_data |-> email_data,
                   result |-> generate_ai_response(email_data, knowledge_base, clock)]
    /\ UNCHANGED <<emails, knowledge_base, sentiment_analyzer, clock, call,
                   ticket_log, restarts, cursor, threads>>

PureNext ==
    \/ Restart
    \/ CallDeterminePriority
    \/ CallRuleBasedSentiment
    \/ CallAnalyzeSentiment
    \/ CallExtractKeywords
    \/ CallFindBestSolution
    \/ CallGenerateAiResponse

PureSpec == Init /\ [][PureNext]_vars

-----------------------------------------------------------------------------
(* process_email in two steps, around the call self.sentiment_analyzer(text) *)
(* of analyze_sentiment: the call is made, and then it returns or raises,  *)
(* or it does not return.  The handlers of other requests run meanwhile.   *)

\* POST /api/process_email up to the model call (or, without a model, up to
\* the rule-based classification)
ProcessEmailStart(inbound, behaviour) ==
    /\ ~call.active
    /\ Len(emails) < MaxEmails
    /\ Len(ticket_log) < MaxSynth
    /\ inbound.sender # "" /\ inbound.subject # "" /\ inbound.body # ""
    /\ call' = [active |-> TRUE, sender |-> inbound.sender, subject |-> inbound.subject,
                body |-> inbound.body, behaviour |-> behaviour]
    /\ UNCHANGED <<emails, knowledge_base, sentiment_analyzer, clock, ticket_log,
                   restarts, last, cursor, threads>>

\* the model call has returned or raised: the rest of process_email
ProcessEmailFinish ==
    /\ call.active
    /\ call.behaviour # Hang
    /\ process_email([sender |-> call.sender, subject |-> call.subject, body |-> call.body],
                     call.behaviour)
    /\ call' = NoCall
    /\ UNCHANGED <<knowledge_base, sentiment_analyzer, clock, restarts,
                   cursor, threads>>

LiveNext ==
    \/ Tick
    \/ \E inbound \in Inbound :
          \E behaviour \in ModelCalls(sentiment_analyzer)
                              \cup (IF sentiment_analyzer = "None" THEN {} ELSE {Hang}) :
              ProcessEmailStart(inbound, behaviour)
    \/ ProcessEmailFinish
    \/ \E email_id \in EmailIds : SendResponse(email_id)
    \/ \E email_id \in EmailIds : RegenerateResponse(email_id)

\* a model call that returns or raises is followed by the rest of the handler
LiveSpec == Init /\ [][LiveNext]_vars /\ WF_vars(ProcessEmailFinish)

-----------------------------------------------------------------------------
(* The handlers statement by statement.  The server handles requests in     *)
(* threads, and all of them use the one connection and the one cursor of    *)
(* the assistant (check_same_thread=False): a step below is one handler     *)
(* running up to and including its next statement on the cursor, and the    *)
(* steps of the threads interleave.  The queries of get_analytics are each  *)
(* taken together with their fetch.                                         *)

\* the cursor after execute() of a statement with the given result rows
Executed(query, rows, lastrowid) ==
    [query |-> query, rows |-> rows, lastrowid |-> lastrowid]

\* the cursor after fetchall(), or fetchone() on a single row
Fetched == [cursor EXCEPT !.rows = <<>>]

\* the process_email calls that have not yet inserted their row
Inserting == {t \in Threads : threads[t].pc \in {"fetch_knowledge_base", "insert"}}

\* process_email up to the execute of find_best_solution
ProcessEmailSelect(t, inbound, behaviour) ==
    /\ threads[t] = Idle
    /\ Len(emails) + Cardinality(Inserting) < MaxEmails
    /\ inbound.sender # "" /\ inbound.subject # "" /\ inbound.body # ""
    /\ \E email_data \in email_data_table[inbound, sentiment_analyzer, behaviour] :
          threads' = [threads EXCEPT ![t] = [pc |-> "fetch_knowledge_base",
                                             email_data |-> email_data]]
    /\ cursor' = Executed("knowledge_base", knowledge_base, cursor.lastrowid)
    /\ UNCHANGED <<emails, knowledge_base, sentiment_analyzer, clock, call,
                   ticket_log, restarts, last>>

\* generate_ai_response from kb_entries = self.cursor.fetchall() on: rows of
\* another SELECT do not unpack into the four columns, and the ValueError is
\* caught by the except clause of generate_ai_response
generate_from_cursor(email_data) ==
    IF cursor.query # "knowledge_base" /\ cursor.rows # <<>>
    THEN GenResult(FALSE, fallback_response(sender_name_of(email_data.sender)), "", "")
    ELSE generate_table[email_data, cursor.rows, clock]

\* process_email from the fetchall of find_best_solution up to the INSERT
ProcessEmailFetch(t) ==
    /\ threads[t].pc = "fetch_knowledge_base"
    /\ threads' = [threads EXCEPT ![t] =
                      [pc |-> "insert", email_data |-> threads[t].email_data,
                       kb_entries |-> [query |-> cursor.query, rows |-> cursor.rows],
                       ai_response |-> generate_from_cursor(threads[t].email_data).response]]
    /\ cursor' = Fetched
    /\ UNCHANGED <<emails, knowledge_base, sentiment_analyzer, clock, call,
                   ticket_log, restarts, last>>

\* process_email: the INSERT and the commit
ProcessEmailInsert(t) ==
    /\ threads[t].pc = "insert"
    /\ emails' = Append(emails, NewRow(Len(emails) + 1, threads[t].email_data,
                                       threads[t].ai_response, clock))
    /\ cursor' = Executed("insert", <<>>, Len(emails) + 1)
    /\ threads' = [threads EXCEPT ![t] =
                      [pc |-> "lastrowid", row |-> Len(emails) + 1,
                       kb_entries |-> threads[t].kb_entries]]
    /\ UNCHANGED <<knowledge_base, sentiment_analyzer, clock, call, ticket_log,
                   restarts, last>>

\* process_email: email_data['id'] = self.cursor.lastrowid, and the return;
\* `row` is the id of the row this call inserted, kb_entries what its
\* fetchall returned
ProcessEmailLastrowid(t) ==
    /\ threads[t].pc = "lastrowid"
    /\ last' = [op |-> "process_email", code |-> 200, id |-> cursor.lastrowid,
                row |-> threads[t].row, kb_entries |-> threads[t].kb_entries]
    /\ threads' = [threads EXCEPT ![t] = Idle]
    /\ UNCHANGED <<emails, knowledge_base, sentiment_analyzer, clock, call,
                   ticket_log, restarts, cursor>>

\* get_all_emails: the execute of the SELECT; `rows` are the ids of the rows
\* in the order of the result
GetAllEmailsSelect(t) ==
    /\ threads[t] = Idle
    /\ \E p \in Listings(1..Len(emails)) :
          LET rows == [i \in 1..Len(p) |-> emails[p[i]].id]
          IN  /\ cursor' = Executed("emails", rows, cursor.lastrowid)
              /\ threads' = [threads EXCEPT ![t] = [pc |-> "fetch_emails", rows |-> rows]]
    /\ UNCHANGED <<emails, knowledge_base, sentiment_analyzer, clock, call,
                   ticket_log, restarts, last>>

\* get_all_emails: the fetchall and the return; rows of the SELECT of
\* find_best_solution have four columns, and row[4] raises IndexError: 500
GetAllEmailsFetch(t) ==
    /\ threads[t].pc = "fetch_emails"
    /\ last' = IF cursor.query = "knowledge_base" /\ cursor.rows # <<>>
               THEN [op |-> "get_all_emails", code |-> 500, rows |-> threads[t].rows]
               ELSE [op |-> "get_all_emails", code |-> 200, result |-> cursor.rows,
                     rows |-> threads[t].rows]
    /\ cursor' = Fetched
    /\ threads' = [threads EXCEPT ![t] = Idle]
    /\ UNCHANGED <<emails, knowledge_base, sentiment_analyzer, clock, call,
                   ticket_log, restarts>>

\* get_analytics: SELECT priority, COUNT(*) ... GROUP BY priority
GetAnalyticsPriority(t) ==
    /\ threads[t] = Idle
    /\ threads' = [threads EXCEPT ![t] =
                      [pc |-> "sentiment_counts", priority_counts |-> CountBy("priority")]]
    /\ cursor' = Executed("priority_counts", <<>>, cursor.lastrowid)
    /\ UNCHANGED <<emails, knowledge_base, sentiment_analyzer, clock, call,
                   ticket_log, restarts, last>>

\* get_analytics: SELECT sentiment, COUNT(*) ... GROUP BY sentiment
GetAnalyticsSentiment(t) ==
    /\ threads[t].pc = "sentiment_counts"
    /\ threads' = [threads EXCEPT ![t] =
                      [pc |-> "status_counts",
                       priority_counts |-> threads[t].priority_counts,
                       sentiment_counts |-> CountBy("sentiment")]]
    /\ cursor' = Executed("sentiment_counts", <<>>, cursor.lastrowid)
    /\ UNCHANGED <<emails, knowledge_base, sentiment_analyzer, clock, call,
                   ticket_log, restarts, last>>

\* get_analytics: SELECT status, COUNT(*) ... GROUP BY status
GetAnalyticsStatus(t) ==
    /\ threads[t].pc = "status_counts"
    /\ threads' = [threads EXCEPT ![t] =
                      [pc |-> "total_emails",
                       priority_counts |-> threads[t].priority_counts,
                       sentiment_counts |-> threads[t].sentiment_counts,
                       status_counts |-> CountBy("status")]]
    /\ cursor' = Executed("status_counts", <<>>, cursor.lastrowid)
    /\ UNCHANGED <<emails, knowledge_base, sentiment_analyzer, clock, call,
                   ticket_log, restarts, last>>

\* get_analytics: SELECT COUNT(*) FROM emails
GetAnalyticsTotal(t) ==
    /\ threads[t].pc = "total_emails"
    /\ threads' = [threads EXCEPT ![t] =
                      [pc |-> "recent_emails",
                       priority_counts |-> threads[t].priority_counts,
                       sentiment_counts |-> threads[t].sentiment_counts,
                       status_counts |-> threads[t].status_counts,
                       total_emails |-> Len(emails)]]
    /\ cursor' = Executed("total_emails", <<>>, cursor.lastrowid)
    /\ UNCHANGED <<emails, knowledge_base, sentiment_analyzer, clock, call,
                   ticket_log, restarts, last>>

\* get_analytics: the count of the last 24 hours, and the return
GetAnalyticsRecent(t) ==
    /\ threads[t].pc = "recent_emails"
    /\ LET recent_emails ==
               Cardinality({i \in 1..Len(emails) :
                   emails[i].date_received >= current_timestamp(clock) - 86400})
       IN  last' = [op |-> "get_analytics", code |-> 200,
                    result |-> [total_emails |-> threads[t].total_emails,
                                recent_emails |-> recent_emails,
                                urgent_emails |-> GetOr0(threads[t].priority_counts, "urgent"),
                                resolved_emails |-> GetOr0(threads[t].status_counts, "resolved"),
                                pending_emails |-> GetOr0(threads[t].status_counts, "pending"),
                                priority_breakdown |-> threads[t].priority_counts,
                                sentiment_breakdown |-> threads[t].sentiment_counts,
                                status_breakdown |-> threads[t].status_counts]]
    /\ cursor' = Executed("recent_emails", <<>>, cursor.lastrowid)
    /\ threads' = [threads EXCEPT ![t] = Idle]
    /\ UNCHANGED <<emails, knowledge_base, sentiment_analyzer, clock, call,
                   ticket_log, restarts>>

ThreadsNext ==
    \E t \in Threads :
        \/ \E inbound \in Inbound, behaviour \in ModelCalls(sentiment_analyzer) :
              ProcessEmailSelect(t, inbound, behaviour)
        \/ ProcessEmailFetch(t)
        \/ ProcessEmailInsert(t)
        \/ ProcessEmailLastrowid(t)
        \/ GetAllEmailsSelect(t)
        \/ GetAllEmailsFetch(t)
        \/ GetAnalyticsPriority(t)
        \/ GetAnalyticsSentiment(t)
        \/ GetAnalyticsStatus(t)
        \/ GetAnalyticsTotal(t)
        \/ GetAnalyticsRecent(t)

ThreadsSpec == Init /\ [][ThreadsNext]_vars

-----------------------------------------------------------------------------
(* The properties.                                                         *)

\* C1: a record is created with status 'pending'; the only change of a
\* status is pending -> resolved, made by send_response; a resolved record
\* stays resolved, and send_response leaves a resolved record as it is.
C1_StatusOnlyPendingToResolved ==
    [][ /\ Len(emails') >= Len(emails)
        /\ \A i \in 1..Len(emails') :
              IF i > Len(emails)
              THEN emails'[i].status = "pending"
              ELSE /\ emails'[i].id = emails[i].id
                   /\ emails'[i].status # emails[i].status =>
                         /\ emails[i].status = "pending"
                         /\ emails'[i].status = "resolved"
                         /\ last'.op = "send_response"
                         /\ last'.id = emails[i].id
                   /\ (emails[i].status = "resolved" /\ last'.op = "send_response") =>
                         emails'[i] = emails[i] ]_vars

\* a resolved record has been regenerated and is still resolved
C1_Witness ==
    \E i \in 1..Len(emails) :
        /\ emails[i].status = "resolved"
        /\ last = [op |-> "regenerate_response", code |-> 200, id |-> emails[i].id]

\* C2: generate_ai_response returns a non-empty string for every analysis
\* record, a malformed one included (then the 24-hour acknowledgment), and
\* no exception leaves the call.
C2_AlwaysReturnsAString ==
    last.op = "generate_ai_response" =>
        /\ ~last.result.raised
        /\ last.result.response # ""
        /\ (DOMAIN last.email_data # Fields =>
               Contains("will respond within 24 hours", last.result.response))

\* C3 as stated: any two calls of generate_ai_response get different ticket
\* ids.
C3_TicketIdsAllDiffer ==
    \A i, j \in 1..Len(ticket_log) :
        i # j => ticket_log[i].ticket_id # ticket_log[j].ticket_id

\* C3, amended: two calls of generate_ai_response get different ticket ids
\* when the clock shows different seconds at the two calls, and the same
\* ticket id when it shows the same second.
C3_TicketIdsDifferAcrossSeconds ==
    \A i, j \in 1..Len(ticket_log) :
        (ticket_log[i].ticket_id = ticket_log[j].ticket_id)
            <=> (ticket_log[i].at = ticket_log[j].at)

\* three calls, two of them within one second
C3_Witness ==
    \E i, j, k \in 1..Len(ticket_log) :
        /\ i < j
        /\ ticket_log[i].at = ticket_log[j].at
        /\ ticket_log[k].at # ticket_log[i].at
        /\ ticket_log[k].ticket_id # ticket_log[i].ticket_id

\* the text of a template between its first field and its second
FixedPart(template) ==
    LET after == SubSeq(template, Find("}", template) + 1, Len(template))
    IN  SubSeq(after, 1, Find("{", after) - 1)

\* the template the specification names for a priority and a sentiment
NamedTemplate(priority, sentiment) ==
    IF <<priority, sentiment>> \in {<<"urgent", "negative">>, <<"normal", "positive">>,
                                    <<"normal", "neutral">>, <<"urgent", "neutral">>}
    THEN priority \o "_" \o sentiment
    ELSE "normal_neutral"

\* C4: for every priority and sentiment the template of the response is one
\* of the template set: the template priority_sentiment for the four
\* combinations that have one, normal_neutral for the other two.
C4_TemplateResolves ==
    (last.op = "generate_ai_response" /\ DOMAIN last.email_data = Fields) =>
        LET named == NamedTemplate(last.email_data.priority, last.email_data.sentiment)
        IN  /\ named \in DOMAIN response_templates
            /\ last.result.template_key = named
            /\ Contains(FixedPart(response_templates[named]), last.result.response)

\* an urgent, positive record answered with the normal_neutral template
C4_Witness ==
    /\ last.op = "generate_ai_response"
    /\ DOMAIN last.email_data = Fields
    /\ last.email_data.priority = "urgent"
    /\ last.email_data.sentiment = "positive"
    /\ Contains(FixedPart(response_templates["normal_neutral"]), last.result.response)

\* the keyword set of a knowledge entry
EntryKeywords(row) == ToSet(strip_all(str_split(row.keywords, ",")))

\* score(entry) of C5
EntryScore(row, keywords, text) ==
    2 * Cardinality(ToSet(keywords) \cap EntryKeywords(row))
        + Cardinality({kw \in EntryKeywords(row) : Contains(str_lower(kw), str_lower(text))})

\* the pair C5 names for the rows kb: of the earliest row of the maximum
\* score when that is positive, else the generic pair
FirstBest(kb, keywords, text) ==
    LET score(i) == EntryScore(kb[i], keywords, text)
        best == {i \in 1..Len(kb) : score(i) > 0 /\ \A j \in 1..Len(kb) : score(j) <= score(i)}
    IN  IF best = {} THEN <<generic_solution, generic_escalation>>
        ELSE LET i == CHOOSE x \in best : \A y \in best : x <= y
             IN  <<kb[i].solution, kb[i].escalation_info>>

\* C5: find_best_solution returns the solution and escalation of the
\* earliest entry of the maximum score when that score is positive, the
\* generic pair when no entry scores, and never an undefined solution.
C5_FirstBestOrGeneric ==
    last.op = "find_best_solution" =>
        /\ last.result = FirstBest(knowledge_base, last.keywords,
                                   last.subject \o " " \o last.body)
        /\ Len(last.result) = 2
        /\ last.result[1] # ""

\* two different entries share the maximum score, and the earlier one is
\* returned
C5_Witness ==
    /\ last.op = "find_best_solution"
    /\ \E i, j \in 1..Len(knowledge_entries) :
          LET text == last.subject \o " " \o last.body
              score(k) == EntryScore(knowledge_entries[k], last.keywords, text)
          IN  /\ i < j
              /\ score(i) > 0
              /\ score(i) = score(j)
              /\ \A k \in 1..Len(knowledge_entries) : score(k) <= score(i)
              /\ \A k \in 1..(i - 1) : score(k) < score(i)
              /\ last.result = <<knowledge_entries[i].solution,
                                 knowledge_entries[i].escalation_info>>

\* C6: the stored knowledge base is exactly the five predefined entries, in
\* their order, after every start and after every operation.
C6_KnowledgeBaseIsTheFiveEntries ==
    /\ Len(knowledge_base) = Len(knowledge_entries)
    /\ \A i \in 1..Len(knowledge_base) :
          /\ knowledge_base[i].category = knowledge_entries[i].category
          /\ knowledge_base[i].keywords = knowledge_entries[i].keywords
          /\ knowledge_base[i].solution = knowledge_entries[i].solution
          /\ knowledge_base[i].escalation_info = knowledge_entries[i].escalation_info

\* the number of urgent keywords that are substrings of text
KeywordHits(text) ==
    Cardinality({i \in 1..Len(urgent_keywords) : Contains(urgent_keywords[i], text)})

\* word stands in text with no word character next to it
OccursAsWord(word, text) ==
    \E i \in 1..(Len(text) - Len(word) + 1) :
        LET j == i + Len(word) - 1
        IN  /\ SubSeq(text, i, j) = word
            /\ (i = 1 \/ ~IsWordChar(CharAt(text, i - 1)))
            /\ (j = Len(text) \/ ~IsWordChar(CharAt(text, j + 1)))

\* the number of time patterns that match text
PatternHits(text) ==
    Cardinality({i \in 1..Len(time_patterns) : OccursAsWord(time_patterns[i], text)})

\* C7: determine_priority returns 'urgent' if and only if keyword hits plus
\* pattern hits are at least 2, and 'normal' otherwise.
C7_UrgentIffTwoHits ==
    last.op = "determine_priority" =>
        LET text == str_lower(last.subject \o " " \o last.body)
        IN  last.result = (IF KeywordHits(text) + PatternHits(text) >= 2
                           THEN "urgent"
                           ELSE "normal")

\* one keyword hit and one pattern hit: urgent
C7_Witness ==
    /\ last.op = "determine_priority"
    /\ KeywordHits(str_lower(last.subject \o " " \o last.body)) = 1
    /\ PatternHits(str_lower(last.subject \o " " \o last.body)) = 1
    /\ last.result = "urgent"

\* the number of the words that are substrings of the text in lower case
LexiconHits(words, text) ==
    Cardinality({i \in 1..Len(words) : Contains(words[i], str_lower(text))})

\* C8: rule_based_sentiment returns (positive, 0.7) when more positive than
\* negative words occur, (negative, 0.7) when more negative ones occur and
\* (neutral, 0.6) on a tie; the result is a function of the text.
C8_RuleBasedMajority ==
    last.op = "rule_based_sentiment" =>
        LET p == LexiconHits(positive_words, last.text)
            n == LexiconHits(negative_words, last.text)
        IN  last.result = (IF p > n THEN <<"positive", 70>>
                           ELSE IF n > p THEN <<"negative", 70>>
                           ELSE <<"neutral", 60>>)

\* a tie of one positive and one negative word: neutral, 0.6
C8_Witness ==
    /\ last.op = "rule_based_sentiment"
    /\ LexiconHits(positive_words, last.text) = 1
    /\ LexiconHits(negative_words, last.text) = 1
    /\ last.result = <<"neutral", 60>>

\* i is the place in items of the first item of the highest score
IsTop(items, i) ==
    /\ \A j \in 1..Len(items) : items[j].score <= items[i].score
    /\ \A j \in 1..(i - 1) : items[j].score < items[i].score

\* the output of the model call can be read: results[0] is a non-empty list
\* of dicts with a score, the first of the highest score with a label
Interpretable(results) ==
    /\ results # <<>>
    /\ results[1] # <<>>
    /\ \A i \in 1..Len(results[1]) : "score" \in DOMAIN results[1][i]
    /\ \E i \in 1..Len(results[1]) : IsTop(results[1], i) /\ "label" \in DOMAIN results[1][i]

\* the primary backend failed: no model was loaded, the call raised, or its
\* output cannot be read
BackendFailed(analyzer, behaviour) ==
    \/ analyzer = "None"
    \/ behaviour.kind = "raise"
    \/ behaviour.kind = "return" /\ ~Interpretable(behaviour.results)

\* C9: when the primary backend fails analyze_sentiment returns the result
\* of rule_based_sentiment on the text; the label returned is always one of
\* positive, neutral, negative, neutral for a label the model's taxonomy
\* lacks.
C9_FallbackOnFailure ==
    last.op = "analyze_sentiment" =>
        /\ last.result[1] \in {"positive", "neutral", "negative"}
        /\ IF BackendFailed(last.analyzer, last.behaviour)
           THEN last.result = rule_based_sentiment(last.text)
           ELSE \A i \in 1..Len(last.behaviour.results[1]) :
                   (/\ IsTop(last.behaviour.results[1], i)
                    /\ last.behaviour.results[1][i].label
                           \notin {"LABEL_0", "LABEL_1", "LABEL_2",
                                   "negative", "neutral", "positive"})
                       => last.result[1] = "neutral"

\* the model call raised and the rule-based result, not neutral, came back
C9_Witness ==
    /\ last.op = "analyze_sentiment"
    /\ last.analyzer = "pipeline"
    /\ last.behaviour.kind = "raise"
    /\ last.result = <<"positive", 70>>

\* C10: every process_email call that has started eventually completes,
\* whatever the model call does.
C10_StartedCallCompletes == call.active ~> ~call.active

\* a ticket id, 'SUP' and fourteen digits, stands at place i of text
TicketIdAt(text, i) ==
    /\ i + 16 <= Len(text)
    /\ SubSeq(text, i, i + 2) = "SUP"
    /\ \A k \in (i + 3)..(i + 16) : CharAt(text, k) \in DigitSet

\* text, the ticket ids in it left out
RECURSIVE WithoutTicketId(_)
WithoutTicketId(text) ==
    LET at == {i \in 1..Len(text) : TicketIdAt(text, i)}
    IN  IF at = {} THEN text
        ELSE LET first == CHOOSE i \in at : \A j \in at : i <= j
             IN  SubSeq(text, 1, first - 1)
                     \o WithoutTicketId(SubSeq(text, first + 17, Len(text)))

\* C11: a regeneration rewrites ai_response of the record of the given id
\* and nothing else: every other column of that record and every other
\* record stay as they were, and the new text is the text the record had,
\* from process_email or from an earlier regeneration, but for the ticket id.
C11_RegenerationRewritesOnlyTheResponse ==
    [][ (last'.op = "regenerate_response" /\ <<emails, last, ticket_log>>' # <<emails, last, ticket_log>>) =>
            /\ Len(emails') = Len(emails)
            /\ \A i \in 1..Len(emails) :
                  /\ emails'[i] = [emails[i] EXCEPT !.ai_response = emails'[i].ai_response]
                  /\ emails[i].id # last'.id => emails'[i] = emails[i]
                  /\ emails'[i].ai_response # emails[i].ai_response =>
                        WithoutTicketId(emails'[i].ai_response)
                            = WithoutTicketId(emails[i].ai_response) ]_vars

\* a record regenerated twice, at different seconds: the text it has holds
\* the ticket id of the second regeneration, which is not that of the first,
\* while another record is stored
C11_Witness ==
    /\ last.op = "regenerate_response" /\ last.code = 200
    /\ Len(ticket_log) = 3
    /\ ticket_log[2].ticket_id # ticket_log[3].ticket_id
    /\ \E i \in 1..Len(emails) :
          /\ emails[i].id = last.id
          /\ Contains(ticket_log[3].ticket_id, emails[i].ai_response)
          /\ ~Contains(ticket_log[2].ticket_id, emails[i].ai_response)

\* the stored record of the given id
RecordOf(id) == emails[CHOOSE i \in 1..Len(emails) : emails[i].id = id]

\* the ids of the stored records a listing is to return: all of them for
\* get_all_emails, for filter_emails those of the given priority and
\* sentiment, a parameter that is not given leaving all in
Wanted(listing) ==
    {emails[i].id : i \in
        {i \in 1..Len(emails) :
            listing.op = "filter_emails" =>
                /\ listing.priority # "" => emails[i].priority = listing.priority
                /\ listing.sentiment # "" => emails[i].sentiment = listing.sentiment}}

\* C12: get_all_emails returns every stored record exactly once and
\* filter_emails exactly the records that match; in both the urgent records
\* come before the others, and within each of the two groups the records
\* come by received time, latest first.
C12_ListingsCompleteAndOrdered ==
    last.op \in {"get_all_emails", "filter_emails"} =>
        /\ last.code = 200
        /\ ToSet(last.result) = Wanted(last)
        /\ Len(last.result) = Cardinality(Wanted(last))
        /\ \A i, j \in 1..Len(last.result) :
              i < j =>
                  LET a == RecordOf(last.result[i])
                      b == RecordOf(last.result[j])
                  IN  /\ b.priority = "urgent" => a.priority = "urgent"
                      /\ (a.priority = "urgent" <=> b.priority = "urgent") =>
                            a.date_received >= b.date_received

\* two records of one group, the one stored later, at a later second, being
\* listed first
C12_Witness ==
    /\ last.op = "get_all_emails"
    /\ Len(emails) = 2
    /\ emails[1].priority = emails[2].priority
    /\ emails[1].date_received < emails[2].date_received
    /\ last.result = <<emails[2].id, emails[1].id>>

\* the list without the later occurrences of an element
RECURSIVE FirstSeen(_)
FirstSeen(list) ==
    IF list = <<>> THEN <<>>
    ELSE LET front == FirstSeen(SubSeq(list, 1, Len(list) - 1))
             x == list[Len(list)]
         IN  IF x \in ToSet(front) THEN front ELSE Append(front, x)

\* C13: extract_keywords returns the keywords found, each once, in the order
\* in which they were first seen (the pattern matches in pattern order, then
\* the urgent keywords in list order), the first ten of them; so the result
\* is a function of the text.
C13_KeywordsInFirstSeenOrder ==
    last.op = "extract_keywords" =>
        last.result = Take(FirstSeen(keywords_seen(last.text)), 10)

\* a call of generate_ai_response on a complete record of urgent priority
\* that returned the filled template
UrgentReply ==
    /\ last.op = "generate_ai_response"
    /\ DOMAIN last.email_data = Fields
    /\ last.email_data.priority = "urgent"
    /\ ~last.result.raised
    /\ last.result.response # fallback_response(sender_name_of(last.email_data.sender))

\* C14 as stated: the reply to an urgent email holds the ticket id generated
\* in the call, whatever the sentiment.
C14_UrgentReplyHoldsTicketId ==
    UrgentReply => Contains(last.result.ticket_id, last.result.response)

\* C14, amended: the reply to an urgent email holds the ticket id generated
\* in the call when the sentiment is negative or neutral; for an urgent,
\* positive email, answered with the normal_neutral template, the ticket id
\* is generated and is not in the reply.
C14_UrgentTemplatesHoldTicketId ==
    UrgentReply =>
        /\ last.result.ticket_id = new_ticket_id(clock)
        /\ Contains(last.result.ticket_id, last.result.response)
               <=> last.email_data.sentiment \in {"negative", "neutral"}

\* an urgent, negative record whose reply holds the ticket id
C14_Witness ==
    /\ UrgentReply
    /\ last.email_data.sentiment = "negative"
    /\ Contains("Ticket reference: #" \o last.result.ticket_id, last.result.response)

\* C15: with requests interleaved on the shared cursor, a process_email call
\* returns the id of the row it inserted and its find_best_solution has read
\* the knowledge base rows of its query, and a listing returns the rows of
\* its own SELECT: what each call gives when it runs alone.
C15_CallsSeeTheirOwnRows ==
    /\ last.op = "process_email" =>
          /\ last.id = last.row
          /\ last.kb_entries = [query |-> "knowledge_base", rows |-> knowledge_base]
    /\ last.op = "get_all_emails" =>
          /\ last.code = 200
          /\ last.result = last.rows

\* the sum of the values of a dict of counts
RECURSIVE SumOfCounts(_)
SumOfCounts(counts) ==
    IF DOMAIN counts = {} THEN 0
    ELSE LET key == CHOOSE k \in DOMAIN counts : TRUE
         IN  counts[key] + SumOfCounts([k \in (DOMAIN counts) \ {key} |-> counts[k]])

\* C16: the counts of one get_analytics answer agree with each other, also
\* when rows are inserted while its queries run: pending plus resolved make
\* the total, the priority counts and the sentiment counts each sum to the
\* total, urgent_emails is the urgent count, and recent_emails is at most
\* the total.
C16_AnalyticsCountsAgree ==
    last.op = "get_analytics" =>
        LET r == last.result
        IN  /\ r.pending_emails + r.resolved_emails = r.total_emails
            /\ SumOfCounts(r.priority_breakdown) = r.total_emails
            /\ SumOfCounts(r.sentiment_breakdown) = r.total_emails
            /\ r.urgent_emails = GetOr0(r.priority_breakdown, "urgent")
            /\ r.recent_emails <= r.total_emails

====
